---- MODULE Spec2Model ----
(***************************************************************************)
(* Model of the rules engines of ViewPersonal:                             *)
(*   - services/ai/app/behavior.py   (per-subject active/idle/away)        *)
(*   - services/api/app/services/compliance_engine.py and                  *)
(*     services/api/app/services/presence_state.py (per-zone compliance)   *)
(* Timestamps are integers (seconds).  Python's None is the value None     *)
(* below; a state name that is None in Python is the string "none".        *)
(***************************************************************************)
EXTENDS Integers, Sequences, FiniteSets, TLC

\* ------------------------------------------------------------------ bounds
\* now_ts of a behaviour tick ranges over 0..MaxTime
MaxTime == 3
\* each BehaviorConfig duration ranges over 0..MaxSeconds
MaxSeconds == 2
\* motion_value ranges over 0..MaxMotion, motion_threshold over 1..MaxMotion
MaxMotion == 1

\* the API's clock advances in steps of ClockStep seconds, MaxSteps times
ClockStep == 120
MaxSteps == 2
\* the API process is followed over MaxServeSteps steps of the clock
MaxServeSteps == 1
\* time.time() of the AI service takes the values 0..MaxWall
MaxWall == 3
\* presence_heartbeat_seconds is drawn from 0..MaxHeartbeat
MaxHeartbeat == 2
\* a retention period for subjects that are no longer seen, below MaxWall
RetentionSeconds == 2
\* thread ids 1..MaxThreads, request handlers 1..MaxCallers, and up to
\* MaxFrames sampled frames per start()
MaxThreads == 2
MaxCallers == 2
MaxFrames == 1
\* the presence table of a snapshot holds up to MaxRows rows
MaxRows == 2
\* websockets 1..MaxSockets, and up to MaxBroadcasts calls of broadcast_json
MaxSockets == 2
MaxBroadcasts == 2

\* Python's None for an optional timestamp (timestamps are >= 0)
None == -1

VARIABLES
    cfg,        \* BehaviorConfig of the deployment
    st,         \* BehaviorState of one subject (mutated in place by each call)
    sig,        \* BehaviorSignals of the last call
    now_ts,     \* now_ts of the last call
    status,     \* value returned by the last call
    called,     \* update_behavior_state has been called at least once
    prev_state, \* st.last_state as it was when the last call started
    absentFrom, \* history: timestamp of the first tick of the current run of face-absent ticks
    motionFrom, \* history: timestamp of the first tick of the current run of one motion condition
    inOrder,    \* history: the ticks of the current face-present run came with increasing timestamps
    elapsed     \* no_face_s, no_motion_s, motion_active_s of the last call

bvars == <<cfg, st, sig, now_ts, status, called, prev_state, absentFrom, motionFrom, inOrder,
           elapsed>>

VARIABLES
    clock,      \* wall clock of the API process, in seconds (_now())
    events,     \* table presence_events: the rows a query can still return
    cache,      \* _STATE_CACHE: zone_id -> ZoneState, or NoZoneState
    out,        \* what the last evaluate_zone_compliance returned
    eval_now,   \* `now` of the last evaluation (None: none yet)
    computed,   \* zone_id -> computed_state of the last evaluation at the hysteresis test
    zone_counts, \* zone_counts of the last evaluation: zone_id -> role -> count
    observed    \* history: zone_id -> some evaluation so far found presence in the zone

zvars == <<clock, events, cache, out, eval_now, computed, zone_counts, observed>>

VARIABLES
    document,      \* data/compliance_model.yaml as it is on disk now
    model,         \* `model` of the evaluation in progress, or of the last one
    serving,       \* the API process has run startup() and serves requests
    boot_document, \* history: the document as it was when startup() ran
    running,       \* the coroutine that holds the event loop ("none": the loop is free)
    co,            \* coroutine -> locals of its call of evaluate_zone_compliance
    result         \* coroutine -> how its last evaluation ended

svars == <<document, model, serving, boot_document, running, co, result>>

VARIABLES
    settings,    \* app.config.settings of the AI service (the fields the ingest loop reads)
    wall,        \* time.time() of the AI service, in seconds
    _subjects,   \* VideoIngestor._subjects: subject -> SubjectState
    sent,        \* the presence events the last sampled frame pushed
    last_frame,  \* the last sampled frame: what was detected, the status computed
    swept        \* history: the subjects the sweep has pushed away for and
                 \* whose face has not been detected since

ivars == <<settings, wall, _subjects, sent, last_frame, swept>>

VARIABLES
    _stop,             \* VideoIngestor._stop (threading.Event)
    _running,          \* VideoIngestor._running
    _connected,        \* VideoIngestor._connected
    _thread,           \* VideoIngestor._thread: a thread id, or 0 for None
    _frames_processed, \* VideoIngestor._frames_processed
    tpc,               \* thread id -> where the thread is in _run
    cpc,               \* request handler -> where it is in start() / stop()
    saw_stop,          \* history: thread id -> the thread has found _stop set
    last_call          \* history: the call that has returned last: start, stop or none

wvars == <<_stop, _running, _connected, _thread, _frames_processed, tpc, cpc, saw_stop,
           last_call>>

VARIABLES
    _connections,  \* WebSocketManager._connections
    sock,          \* websocket -> where its handler ws_presence is
    closed,        \* the websockets whose peer has gone: a send on them raises
    tasks,         \* the _safe_send tasks created and not yet run
    broadcasts,    \* the number of broadcast_json calls so far
    ws_error,      \* history: an exception has left disconnect, broadcast_json or a task
    dropped,       \* history: the websockets removed after a failed send
    missed         \* history: the websockets disconnect was called for when not in the set

kvars == <<_connections, sock, closed, tasks, broadcasts, ws_error, dropped, missed>>

vars == <<bvars, zvars, svars, ivars, wvars, kvars>>

\* ------------------------------------------------------- behavior.py, data
BehaviorConfig ==
    [active_confirm_seconds : 0..MaxSeconds,
     idle_seconds : 0..MaxSeconds,
     away_seconds : 0..MaxSeconds]

BehaviorSignals ==
    [face_present : BOOLEAN,
     motion_value : 0..MaxMotion,
     motion_threshold : 1..MaxMotion]

\* BehaviorState() : every field defaults to None
EmptyBehaviorState ==
    [last_state |-> "none",
     face_present_since |-> None,
     no_face_since |-> None,
     motion_active_since |-> None,
     no_motion_since |-> None]

\* ---------------------------------------------------- behavior.py, helpers
Max(a, b) == IF a >= b THEN a ELSE b

\* mutant of _since: no time ever accrues
SinceNeverAccrues(t, since_ts) == 0

\* mutant of _since: the difference is not clamped at zero
SinceSigned(t, since_ts) ==
    IF since_ts = None THEN 0 ELSE t - since_ts

\* _since(now_ts, since_ts)
_since(t, since_ts) ==
    IF since_ts = None THEN 0 ELSE Max(0, t - since_ts)

\* Python's `x or t` on an optional float: None and 0.0 are both falsy
PyOr(x, t) == IF x = None \/ x = 0 THEN t ELSE x

\* mutant of TrackSince: a face-absent tick leaves the motion markers alone
TrackSinceKeepsMotion(s, sg, t) ==
    LET motion_active == sg.motion_value >= sg.motion_threshold IN
    IF sg.face_present
    THEN LET s1 == [s EXCEPT !.no_face_since = None,
                             !.face_present_since = PyOr(s.face_present_since, t)]
         IN IF motion_active
            THEN [s1 EXCEPT !.no_motion_since = None,
                            !.motion_active_since = PyOr(s.motion_active_since, t)]
            ELSE [s1 EXCEPT !.motion_active_since = None,
                            !.no_motion_since = PyOr(s.no_motion_since, t)]
    ELSE [s EXCEPT !.face_present_since = None,
                   !.no_face_since = PyOr(s.no_face_since, t)]

\* behavior.py lines 51-67: the four since markers
TrackSince(s, sg, t) ==
    LET motion_active == sg.motion_value >= sg.motion_threshold IN
    IF sg.face_present
    THEN LET s1 == [s EXCEPT !.no_face_since = None,
                             !.face_present_since = PyOr(s.face_present_since, t)]
         IN IF motion_active
            THEN [s1 EXCEPT !.no_motion_since = None,
                            !.motion_active_since = PyOr(s.motion_active_since, t)]
            ELSE [s1 EXCEPT !.motion_active_since = None,
                            !.no_motion_since = PyOr(s.no_motion_since, t)]
    ELSE [s EXCEPT !.face_present_since = None,
                   !.no_face_since = PyOr(s.no_face_since, t),
                   !.motion_active_since = None,
                   !.no_motion_since = None]

\* a branch that writes last_state and returns it
Write(s, v) == [st |-> [s EXCEPT !.last_state = v], ret |-> v]

\* mutant of AwayConfirmed: strict comparison
AwayConfirmedStrict(c, no_face_s) == no_face_s > c.away_seconds

\* line 73
AwayConfirmed(c, no_face_s) == no_face_s >= c.away_seconds

\* mutant of IdleConfirmed: a below-threshold tick is enough, no window
IdleConfirmedAnyMotion(c, sg, no_motion_s) ==
    sg.face_present /\ sg.motion_value < sg.motion_threshold

\* line 77
IdleConfirmed(c, sg, no_motion_s) ==
    sg.face_present /\ no_motion_s >= c.idle_seconds

\* line 81
ActiveConfirmed(c, sg, motion_active_s) ==
    sg.face_present /\ motion_active_s >= c.active_confirm_seconds

\* mutant of Sticky: the prior state is never kept
StickyNever(s, sg) == FALSE

\* line 86: keep the prior state
Sticky(s, sg) == s.last_state \in {"active", "idle"} /\ sg.face_present

\* mutant of ReturnFromAway: always re-enters as active
ReturnAlwaysActive(s, motion_active) == Write(s, "active")

\* mutant of ReturnFromAway: returns without storing last_state
ReturnNoWrite(s, motion_active) ==
    [st |-> s, ret |-> IF motion_active THEN "active" ELSE "idle"]

\* lines 89-95: first frame after returning
ReturnFromAway(s, motion_active) ==
    IF motion_active THEN Write(s, "active") ELSE Write(s, "idle")

\* mutant of ColdStart: with no face the stored (unset) state is returned
ColdStartNoAway(s, sg, motion_active) ==
    IF sg.face_present
    THEN Write(s, IF motion_active THEN "active" ELSE "idle")
    ELSE [st |-> s, ret |-> s.last_state]

\* lines 97-103: cold start, and every tick without a face that is not yet away
ColdStart(s, sg, motion_active) ==
    IF sg.face_present
    THEN Write(s, IF motion_active THEN "active" ELSE "idle")
    ELSE Write(s, "away")

\* update_behavior_state(cfg, st, sig, now_ts): the state after the call and
\* the value returned
update_behavior_state(c, s, sg, t) ==
    LET motion_active == sg.motion_value >= sg.motion_threshold
        s1 == TrackSince(s, sg, t)
        no_face_s == _since(t, s1.no_face_since)
        no_motion_s == _since(t, s1.no_motion_since)
        motion_active_s == _since(t, s1.motion_active_since)
    IN  IF AwayConfirmed(c, no_face_s) THEN Write(s1, "away")
        ELSE IF IdleConfirmed(c, sg, no_motion_s) THEN Write(s1, "idle")
        ELSE IF ActiveConfirmed(c, sg, motion_active_s) THEN Write(s1, "active")
        ELSE IF Sticky(s1, sg) THEN [st |-> s1, ret |-> s1.last_state]
        ELSE IF s1.last_state = "away" /\ sg.face_present
             THEN ReturnFromAway(s1, motion_active)
        ELSE ColdStart(s1, sg, motion_active)

\* ------------------------------------------- compliance_model.yaml (policy)
\* The policy document data/compliance_model.yaml: three zones, two
\* regulations.  Zone "store" has a type without a regulation.  The policy
\* names the role "unknown" (the role of a record without a role) and lets
\* it into the lobby, which is to hold exactly two people; the regulation of
\* the lobby leaves the escalation seconds and the severity to the defaults.
PolicyRoles ==
    [guard |-> [permissions |-> {"restricted"}],
     visitor |-> [permissions |-> {"lobby"}],
     unknown |-> [permissions |-> {"lobby"}]]

PolicyZones ==
    << [zone_id |-> "vault", type |-> "restricted", camera_ids |-> {"cam1"}],
       [zone_id |-> "store", type |-> "storage", camera_ids |-> {"cam2"}],
       [zone_id |-> "lobby", type |-> "lobby", camera_ids |-> {"cam3"}] >>

RegulationsV1 ==
    [restricted |->
        [regulation_id |-> "R1",
         required_roles |-> << [role_id |-> "guard", min |-> 1, max |-> 1] >>,
         forbidden_roles |-> {"visitor"},
         allowed_absence_seconds |-> 30,
         violation_escalation_seconds |-> [understaffed |-> 60, unauthorized |-> 60],
         severity |-> "high"],
     lobby |->
        [regulation_id |-> "R2",
         required_roles |-> << [role_id |-> "unknown", min |-> 2, max |-> 2] >>]]

\* an edited document: the lobby is to hold exactly one person
RegulationsV2 ==
    [RegulationsV1 EXCEPT
        !.lobby.required_roles = << [role_id |-> "unknown", min |-> 1, max |-> 1] >>]

\* line 70: the regulations of the model the evaluation loaded
PolicyRegulations == IF model = "v2" THEN RegulationsV2 ELSE RegulationsV1

ZoneIds == {PolicyZones[i].zone_id : i \in DOMAIN PolicyZones}

\* ------------------------------------------------ presence_events (the table)
\* payload JSON of a row: the three keys _role_from_payload reads ("": absent)
NoPayload == [role |-> "", staff_role |-> "", entity_role |-> ""]

\* the presence events the AI service posts: emp1 is a guard seen at cam1
\* or at cam3, emp2 a visitor seen at cam1, at cam3 or at cam9 (a camera of
\* no zone), anon1 an anonymous track at cam3 whose payload names no role
Posts ==
    {[subject |-> "emp1", source_id |-> src, event |-> "active",
      payload |-> [role |-> "guard", staff_role |-> "", entity_role |-> ""]] :
        src \in {"cam1", "cam3"}}
    \cup {[subject |-> "emp2", source_id |-> src, event |-> "active",
           payload |-> [role |-> "", staff_role |-> "visitor", entity_role |-> "guard"]] :
        src \in {"cam1", "cam3", "cam9"}}
    \cup {[subject |-> "anon1", source_id |-> "cam3", event |-> "idle",
           payload |-> NoPayload]}

\* ------------------------------------------------------- presence_state.py
\* rows with PresenceEvent.ts >= since (lines 13-16; the table holds fewer
\* rows than the limit)
RowsSince(rows, since) == {e \in rows : e.ts >= since}

\* subject of a row (line 22); employee_id and anonymous_track_id are one
\* field here, never both empty
SubjectOf(e) == e.subject

\* mutant of LatestChoices: the last row per subject in descending ts order
OldestChoices(rows) ==
    LET subs == {SubjectOf(e) : e \in rows}
        oldest(sb) == {e \in rows : /\ SubjectOf(e) = sb
                                     /\ \A f \in rows : SubjectOf(f) = sb => e.ts <= f.ts}
    IN  {l \in [subs -> rows] : \A sb \in subs : l[sb] \in oldest(sb)}

\* lines 20-24: the first row per subject in descending ts order; rows of one
\* subject with equal ts come in database order, so either may be first
LatestChoices(rows) ==
    LET subs == {SubjectOf(e) : e \in rows}
        newest(sb) == {e \in rows : /\ SubjectOf(e) = sb
                                     /\ \A f \in rows : SubjectOf(f) = sb => f.ts <= e.ts}
    IN  {l \in [subs -> rows] : \A sb \in subs : l[sb] \in newest(sb)}

\* lines 26-37: the dict built per subject; it has no "payload" key
PresenceDict(sb, e) ==
    [subject |-> sb, last_seen_ts |-> e.ts, source_id |-> e.source_id, event |-> e.event]

RECURSIVE SortedDesc(_)
\* line 38: sorted by last_seen_ts, newest first
SortedDesc(S) ==
    IF S = {} THEN << >>
    ELSE LET m == CHOOSE x \in S : \A y \in S : x.last_seen_ts >= y.last_seen_ts
         IN  <<m>> \o SortedDesc(S \ {m})

\* get_current_presence(db, since=since), for one database order `latest`
get_current_presence(latest) ==
    SortedDesc({PresenceDict(sb, latest[sb]) : sb \in DOMAIN latest})

\* ---------------------------------------------------- compliance_engine.py
DefaultAbsence == 30
DefaultUnderstaffed == 120
DefaultUnauthorized == 60
WindowFactor == 4

\* dict.get(key, default) on a record
Get(d, key, default) == IF key \in DOMAIN d THEN d[key] ELSE default

\* _role_from_payload(payload): "" stands for None
_role_from_payload(payload) ==
    IF payload = NoPayload THEN ""
    ELSE IF payload.role # "" THEN payload.role
    ELSE IF payload.staff_role # "" THEN payload.staff_role
    ELSE IF payload.entity_role # "" THEN payload.entity_role
    ELSE ""

\* line 95: p.get("payload") or {}, then the role or "unknown"
RoleOfRecord(p) ==
    LET payload == IF "payload" \in DOMAIN p THEN p.payload ELSE NoPayload
        role == _role_from_payload(payload)
    IN  IF role = "" THEN "unknown" ELSE role

\* mutant of CameraToZone: a camera of no zone counts for the first zone
CameraToZoneDefault(cam) ==
    LET hits == {i \in DOMAIN PolicyZones : cam \in PolicyZones[i].camera_ids}
    IN  PolicyZones[IF hits = {} THEN 1
                    ELSE CHOOSE i \in hits : \A j \in hits : j <= i].zone_id

\* lines 73-76: camera -> zone ("" when the camera maps to no zone)
CameraToZone(cam) ==
    LET hits == {i \in DOMAIN PolicyZones : cam \in PolicyZones[i].camera_ids}
    IN  IF hits = {} THEN ""
        ELSE PolicyZones[CHOOSE i \in hits : \A j \in hits : j <= i].zone_id

\* lines 79-82: start of the presence window
MaxAbsence ==
    LET A == {DefaultAbsence} \cup
             {Get(PolicyRegulations[t], "allowed_absence_seconds", DefaultAbsence) :
                 t \in DOMAIN PolicyRegulations}
    IN  CHOOSE a \in A : \A b \in A : b <= a

WindowStart(now) == now - MaxAbsence * WindowFactor

RoleNames == {"guard", "visitor", "unknown"}

RECURSIVE Tally(_, _, _)
\* lines 87-97: role counts per zone, and the last_seen_ts of the last record
\* of each zone in list order
Tally(presence, counts, last_seen) ==
    IF presence = << >> THEN [counts |-> counts, last_seen |-> last_seen]
    ELSE LET p == Head(presence)
             zone_id == CameraToZone(p.source_id)
             role == RoleOfRecord(p)
         IN  IF zone_id = ""
             THEN Tally(Tail(presence), counts, last_seen)
             ELSE Tally(Tail(presence),
                        [counts EXCEPT ![zone_id][role] = @ + 1],
                        [last_seen EXCEPT ![zone_id] = p.last_seen_ts])

NoZoneState == [state |-> "none", since |-> None, last_seen |-> None]

ZoneState(state, since, last_seen) ==
    [state |-> state, since |-> since, last_seen |-> last_seen]

\* lines 108-130: a zone whose type has no regulation; the cache is not touched
NoRegulationZone(z, prev, now) ==
    [entry |-> [zone_id |-> z.zone_id, regulation_id |-> "none", state |-> "UNKNOWN",
                violations |-> {<<"no_regulation", "">>}, since |-> now,
                severity |-> "info"],
     cached |-> prev,
     computed |-> "UNKNOWN"]

\* line 149
NoPresenceSince(prev, now) == IF prev # NoZoneState THEN prev.since ELSE now

\* lines 143-172: a regulated zone without a recent presence record
NoPresenceZone(z, regulation, prev, now) ==
    LET computed_state == IF prev = NoZoneState THEN "INITIALIZING" ELSE "UNKNOWN"
        state_since == NoPresenceSince(prev, now)
    IN  [entry |-> [zone_id |-> z.zone_id, regulation_id |-> regulation.regulation_id,
                    state |-> computed_state, violations |-> {},
                    since |-> state_since, severity |-> "info"],
         cached |-> ZoneState(computed_state, state_since, None),
         computed |-> computed_state]

\* lines 175-185: forbidden / unauthorized violations of the roles present
RoleViolations(zone_type, forbidden, counts) ==
    LET present == {r \in DOMAIN counts : counts[r] > 0} IN
    {<<"forbidden", r>> : r \in present \cap forbidden}
    \cup {<<"unauthorized", r>> :
            r \in {q \in present : IF q \in DOMAIN PolicyRoles
                                   THEN zone_type \notin PolicyRoles[q].permissions
                                   ELSE TRUE}}

RECURSIVE Staffing(_, _, _, _)
\* lines 188-197: missing / over violations and the state they leave
Staffing(required, counts, violations, computed_state) ==
    IF required = << >> THEN [violations |-> violations, computed_state |-> computed_state]
    ELSE LET cfgr == Head(required)
             cnt == IF cfgr.role_id \in DOMAIN counts THEN counts[cfgr.role_id] ELSE 0
             min_req == Get(cfgr, "min", 0)
             max_req == Get(cfgr, "max", 999)
             v1 == IF cnt < min_req THEN violations \cup {<<"missing", cfgr.role_id>>}
                   ELSE violations
             s1 == IF cnt < min_req THEN "UNDERSTAFFED" ELSE computed_state
             v2 == IF cnt > max_req THEN v1 \cup {<<"over", cfgr.role_id>>} ELSE v1
             s2 == IF cnt > max_req THEN "OVERSTAFFED" ELSE s1
         IN  Staffing(Tail(required), counts, v2, s2)

\* line 206
HysteresisSince(prev, computed_state, now) ==
    IF prev # NoZoneState /\ prev.state = computed_state THEN prev.since ELSE now

\* mutant of Escalate: the thresholds are compared with >=
EscalateInclusive(escalation, computed_state, state_since, now) ==
    LET s1 == IF /\ computed_state \in {"UNDERSTAFFED", "OVERSTAFFED"}
                 /\ now - state_since >= Get(escalation, "understaffed", DefaultUnderstaffed)
              THEN "CRITICAL_VIOLATION" ELSE computed_state
    IN  IF /\ s1 = "UNAUTHORIZED_PERSON"
           /\ now - state_since >= Get(escalation, "unauthorized", DefaultUnauthorized)
        THEN "CRITICAL_VIOLATION" ELSE s1

\* mutant of Escalate: the computed state is not looked at
EscalateAnyState(escalation, computed_state, state_since, now) ==
    IF now - state_since > Get(escalation, "unauthorized", DefaultUnauthorized)
    THEN "CRITICAL_VIOLATION" ELSE computed_state

\* lines 209-216: escalation to critical
Escalate(escalation, computed_state, state_since, now) ==
    LET s1 == IF /\ computed_state \in {"UNDERSTAFFED", "OVERSTAFFED"}
                 /\ now - state_since > Get(escalation, "understaffed", DefaultUnderstaffed)
              THEN "CRITICAL_VIOLATION" ELSE computed_state
    IN  IF /\ s1 = "UNAUTHORIZED_PERSON"
           /\ now - state_since > Get(escalation, "unauthorized", DefaultUnauthorized)
        THEN "CRITICAL_VIOLATION" ELSE s1

\* lines 174-240: a regulated zone with a recent presence record
PresenceZone(z, regulation, counts, last_seen, prev, now) ==
    LET rolev == RoleViolations(z.type, Get(regulation, "forbidden_roles", {}), counts)
        staff == Staffing(Get(regulation, "required_roles", << >>), counts, rolev, "COMPLIANT")
        violations == staff.violations
        s1 == IF \E v \in violations : v[1] \in {"forbidden", "unauthorized"}
              THEN "UNAUTHORIZED_PERSON" ELSE staff.computed_state
        computed_state == IF violations = {} THEN "COMPLIANT" ELSE s1
        state_since == HysteresisSince(prev, computed_state, now)
        final == Escalate(Get(regulation, "violation_escalation_seconds", << >>),
                          computed_state, state_since, now)
    IN  [entry |-> [zone_id |-> z.zone_id, regulation_id |-> regulation.regulation_id,
                    state |-> final, violations |-> violations,
                    since |-> state_since, severity |-> Get(regulation, "severity", "high")],
         cached |-> ZoneState(final, state_since, last_seen),
         computed |-> computed_state]

\* lines 102-240: one pass of the loop over the zones
EvaluateZone(z, counts, last_seen, prev, now) ==
    IF z.type \notin DOMAIN PolicyRegulations THEN NoRegulationZone(z, prev, now)
    ELSE IF last_seen = None
         THEN NoPresenceZone(z, PolicyRegulations[z.type], prev, now)
         ELSE PresenceZone(z, PolicyRegulations[z.type], counts, last_seen, prev, now)

\* mutant of _event_payload: the event is dated from the evaluation
EventPayloadSinceNow(entry, ts) ==
    [event_type |-> "compliance.zone", zone_id |-> entry.zone_id,
     regulation_id |-> entry.regulation_id, state |-> entry.state,
     violations |-> entry.violations, since |-> ts,
     severity |-> entry.severity, ts |-> ts, version |-> "1.0"]

\* _event_payload(...)
_event_payload(entry, ts) ==
    [event_type |-> "compliance.zone", zone_id |-> entry.zone_id,
     regulation_id |-> entry.regulation_id, state |-> entry.state,
     violations |-> entry.violations, since |-> entry.since,
     severity |-> entry.severity, ts |-> ts, version |-> "1.0"]

\* evaluate_zone_compliance(db) at `now`, for the presence list `presence`
evaluate_zone_compliance(presence, zcache, now) ==
    LET t == Tally(presence,
                   [zid \in ZoneIds |-> [r \in RoleNames |-> 0]],
                   [zid \in ZoneIds |-> None])
        res == [i \in DOMAIN PolicyZones |->
                  EvaluateZone(PolicyZones[i], t.counts[PolicyZones[i].zone_id],
                               t.last_seen[PolicyZones[i].zone_id],
                               zcache[PolicyZones[i].zone_id], now)]
        idx(zid) == CHOOSE i \in DOMAIN PolicyZones : PolicyZones[i].zone_id = zid
    IN  [zones |-> [i \in DOMAIN PolicyZones |-> res[i].entry],
         events |-> [i \in DOMAIN PolicyZones |-> _event_payload(res[i].entry, now)],
         cache |-> [zid \in ZoneIds |-> res[idx(zid)].cached],
         computed |-> [zid \in ZoneIds |-> res[idx(zid)].computed],
         counts |-> t.counts,
         last_seen |-> t.last_seen]

\* ------------------------------------------------- compliance, the machine
\* the compliance variables while only the behaviour engine runs
ZIdle ==
    /\ clock = 0
    /\ events = {}
    /\ cache = [zid \in ZoneIds |-> NoZoneState]
    /\ out = [zones |-> << >>, events |-> << >>]
    /\ eval_now = None
    /\ computed = [zid \in ZoneIds |-> "none"]
    /\ zone_counts = [zid \in ZoneIds |-> [r \in RoleNames |-> 0]]
    /\ observed = [zid \in ZoneIds |-> FALSE]

Coroutines == {"loop", "http"}

\* a coroutine that is not inside evaluate_zone_compliance
NoLocals ==
    [pc |-> "wait", now |-> None,
     counts |-> [zid \in ZoneIds |-> [r \in RoleNames |-> 0]],
     last_seen |-> [zid \in ZoneIds |-> None],
     zi |-> 0, prev |-> NoZoneState, zones |-> << >>]

\* the API process while only the engines run: the document stays as it is
\* and every evaluation loads the same model
SIdle ==
    /\ document = "v1"
    /\ model = "v1"
    /\ serving = FALSE
    /\ boot_document = "none"
    /\ running = "none"
    /\ co = [c \in Coroutines |-> NoLocals]
    /\ result = [c \in Coroutines |-> "none"]

\* ------------------------------------------------------- ingest.py, data
\* SubjectState(): None is "none" for last_status; the pose and the last
\* centre are left out, the motion average is kept
NewSubjectState ==
    [last_status |-> "none", last_sent_ts |-> 0, last_seen_ts |-> 0,
     motion_ema |-> 0, behavior |-> EmptyBehaviorState]

\* config.py: the defaults of the settings the ingest loop reads
DefaultSettings ==
    [active_confirm_seconds |-> 30, idle_seconds |-> 60, away_seconds |-> 120,
     presence_heartbeat_seconds |-> 5, motion_active_threshold |-> 1]

NoFrame == [kind |-> "none", subject |-> "", status |-> "none"]

Threads == 1..MaxThreads
Callers == 1..MaxCallers

\* the ingest loop before any frame
IIdle ==
    /\ settings = DefaultSettings
    /\ wall = 0
    /\ _subjects = << >>
    /\ sent = {}
    /\ last_frame = NoFrame
    /\ swept = {}

\* VideoIngestor.__init__ (lines 83-97): no thread yet
WIdle ==
    /\ _stop = FALSE
    /\ _running = FALSE
    /\ _connected = FALSE
    /\ _thread = 0
    /\ _frames_processed = 0
    /\ tpc = [t \in Threads |-> "unborn"]
    /\ cpc = [c \in Callers |-> "idle"]
    /\ saw_stop = [t \in Threads |-> FALSE]
    /\ last_call = "none"

\* ---------------------------------------------------------- ws.py, data
Sockets == 1..MaxSockets

\* WebSocketManager.__init__ (lines 10-12), before any client connects
KIdle ==
    /\ _connections = {}
    /\ sock = [w \in Sockets |-> "new"]
    /\ closed = {}
    /\ tasks = {}
    /\ broadcasts = 0
    /\ ws_error = FALSE
    /\ dropped = {}
    /\ missed = {}

\* --------------------------------------------------- behaviour, the machine
MotionActive(sg) == sg.motion_value >= sg.motion_threshold

\* lines 69-71 before the first call
NoElapsed == [no_face_s |-> 0, no_motion_s |-> 0, motion_active_s |-> 0]

InitBehavior ==
    /\ cfg \in BehaviorConfig
    /\ st = EmptyBehaviorState
    /\ sig = [face_present |-> FALSE, motion_value |-> 0, motion_threshold |-> 1]
    /\ now_ts = 0
    /\ status = "none"
    /\ called = FALSE
    /\ prev_state = "none"
    /\ absentFrom = None
    /\ motionFrom = None
    /\ inOrder = TRUE
    /\ elapsed = NoElapsed
    /\ ZIdle
    /\ SIdle
    /\ IIdle
    /\ WIdle
    /\ KIdle

\* one call update_behavior_state(cfg=cfg, st=st, sig=sg, now_ts=t)
Tick ==
    \E sg \in BehaviorSignals, t \in 0..MaxTime :
        LET r == update_behavior_state(cfg, st, sg, t)
            first == ~called
            faceRan == ~first /\ sig.face_present
        IN  /\ st' = r.st
            /\ status' = r.ret
            /\ called' = TRUE
            /\ prev_state' = st.last_state
            /\ sig' = sg
            /\ now_ts' = t
            /\ absentFrom' = IF sg.face_present THEN None
                             ELSE IF first \/ sig.face_present THEN t
                             ELSE absentFrom
            /\ motionFrom' = IF ~sg.face_present THEN None
                             ELSE IF faceRan /\ MotionActive(sig) = MotionActive(sg)
                                  THEN motionFrom
                             ELSE t
            /\ inOrder' = IF ~sg.face_present THEN TRUE
                          ELSE IF faceRan THEN inOrder /\ t > now_ts
                          ELSE TRUE
            /\ elapsed' = [no_face_s |-> _since(t, r.st.no_face_since),
                            no_motion_s |-> _since(t, r.st.no_motion_since),
                            motion_active_s |-> _since(t, r.st.motion_active_since)]
            /\ UNCHANGED <<cfg, zvars, svars, ivars, wvars, kvars>>

NextBehavior == Tick

SpecBehavior == InitBehavior /\ [][NextBehavior]_vars

\* the behaviour variables while only the compliance engine runs
BIdle ==
    /\ cfg = [active_confirm_seconds |-> 30, idle_seconds |-> 60, away_seconds |-> 120]
    /\ st = EmptyBehaviorState
    /\ sig = [face_present |-> FALSE, motion_value |-> 0, motion_threshold |-> 1]
    /\ now_ts = 0
    /\ status = "none"
    /\ called = FALSE
    /\ prev_state = "none"
    /\ absentFrom = None
    /\ motionFrom = None
    /\ inOrder = TRUE
    /\ elapsed = NoElapsed

InitCompliance == ZIdle /\ BIdle /\ SIdle /\ IIdle /\ WIdle /\ KIdle

\* time passes
Advance ==
    /\ clock < MaxSteps * ClockStep
    /\ clock' = clock + ClockStep
    /\ UNCHANGED <<events, cache, out, eval_now, computed, zone_counts, observed, bvars, svars, ivars, wvars, kvars>>

\* main.py ai_ingest_presence_event: the AI service posts a presence event
\* with ts = now.  The clock of the model is coarser than the timestamps of
\* the rows: a later post of a subject is its newer row.  The older rows of
\* the subject can no longer be its first row in a query, and are dropped
\* from the model's table.
Post(P) ==
    \E post \in P :
        LET row == [subject |-> post.subject, ts |-> clock, source_id |-> post.source_id,
                    event |-> post.event, payload |-> post.payload]
            kept == {e \in events : SubjectOf(e) # post.subject}
        IN  /\ row \notin events
            /\ events' = kept \cup {row}
            /\ UNCHANGED <<clock, cache, out, eval_now, computed, zone_counts, observed, bvars, ivars, wvars, kvars>>

PostPresence == Post(Posts) /\ UNCHANGED svars

\* one call evaluate_zone_compliance(db) (the broadcast loop, or a request)
Evaluate ==
    \E latest \in LatestChoices(RowsSince(events, WindowStart(clock))) :
        LET r == evaluate_zone_compliance(get_current_presence(latest), cache, clock)
        IN  /\ cache' = r.cache
            /\ out' = [zones |-> r.zones, events |-> r.events]
            /\ eval_now' = clock
            /\ computed' = r.computed
            /\ zone_counts' = r.counts
            /\ observed' = [zid \in ZoneIds |-> observed[zid] \/ r.last_seen[zid] # None]
            /\ UNCHANGED <<clock, events, bvars, svars, ivars, wvars, kvars>>

NextCompliance == Advance \/ PostPresence \/ Evaluate

SpecCompliance == InitCompliance /\ [][NextCompliance]_vars

\* ------------------------------------- compliance, one table at a time
\* the rows a table can hold: the posts of the AI service, each also as the
\* away event of its subject (ingest.py line 327: a payload without a role),
\* stored one clock step ago or now
SnapshotRows ==
    UNION {{[subject |-> post.subject, ts |-> t, source_id |-> post.source_id,
             event |-> ev, payload |-> IF ev = "away" THEN NoPayload ELSE post.payload] :
               ev \in {post.event, "away"}, t \in {0, ClockStep}} : post \in Posts}

RECURSIVE TablesUpTo(_)
\* the tables of up to n rows
TablesUpTo(n) ==
    IF n = 0 THEN {{}}
    ELSE LET T == TablesUpTo(n - 1)
         IN  T \cup {tb \cup {r} : tb \in T, r \in SnapshotRows}

\* the API process with presence_events filled by earlier posts, one clock
\* step after the first of them
InitSnapshot ==
    /\ BIdle /\ SIdle /\ IIdle /\ WIdle /\ KIdle
    /\ clock = ClockStep
    /\ events \in TablesUpTo(MaxRows)
    /\ cache = [zid \in ZoneIds |-> NoZoneState]
    /\ out = [zones |-> << >>, events |-> << >>]
    /\ eval_now = None
    /\ computed = [zid \in ZoneIds |-> "none"]
    /\ zone_counts = [zid \in ZoneIds |-> [r \in RoleNames |-> 0]]
    /\ observed = [zid \in ZoneIds |-> FALSE]

NextSnapshot == Advance \/ Evaluate

SpecSnapshot == InitSnapshot /\ [][NextSnapshot]_vars

\* ------------------------------------------------------ the API process
\* what data/compliance_model.yaml may hold: one of two policies, or nothing
\* a model can be read from (no file, or a file that is not YAML: both raise
\* inside _load_model)
Documents == {"v1", "v2", "missing"}

\* the presence events posted while the process is looked at: one anonymous
\* track in the lobby
ServePosts == {p \in Posts : p.subject = "anon1"}

\* mutant of Scheduled: the handlers run on threads of a pool, like `def`
\* endpoints
ScheduledThreaded(c) == TRUE

\* evaluate_zone_compliance is a plain function called from `async def`
\* handlers and from the broadcast task, all on one event loop: a coroutine
\* that runs keeps the loop until it awaits, and the function never awaits
Scheduled(c) == running \in {"none", c}

InitServe ==
    /\ ZIdle /\ BIdle /\ IIdle /\ WIdle /\ KIdle
    /\ document \in Documents
    /\ model = "none"
    /\ serving = FALSE
    /\ boot_document = "none"
    /\ running = "none"
    /\ co = [c \in Coroutines |-> NoLocals]
    /\ result = [c \in Coroutines |-> "none"]

zobs == <<out, eval_now, computed, zone_counts, observed>>

\* main.py startup(): bootstrap_admin, then the broadcast task is created;
\* the policy document is not opened
Startup ==
    /\ ~serving
    /\ serving' = TRUE
    /\ boot_document' = document
    /\ UNCHANGED <<document, model, running, co, result, zvars, bvars, ivars, wvars, kvars>>

\* somebody replaces, removes or restores the document on disk
EditDocument ==
    /\ document' \in Documents \ {document}
    /\ UNCHANGED <<model, serving, boot_document, running, co, result, zvars, bvars, ivars, wvars, kvars>>

\* time passes
AdvanceServe ==
    /\ clock < MaxServeSteps * ClockStep
    /\ clock' = clock + ClockStep
    /\ UNCHANGED <<events, cache, zobs, bvars, svars, ivars, wvars, kvars>>

PostServe ==
    /\ serving
    /\ Post(ServePosts)
    /\ UNCHANGED svars

\* lines 66-70: now, then _load_model().  A document that cannot be read
\* raises: the broadcast loop swallows the exception (`except Exception:
\* pass`) and sleeps, a request handler answers 500.
Load(c) ==
    /\ serving
    /\ Scheduled(c)
    /\ co[c].pc = "wait"
    /\ IF document = "missing"
       THEN /\ result' = [result EXCEPT ![c] = "raised"]
            /\ running' = "none"
            /\ UNCHANGED <<model, co>>
       ELSE /\ model' = document
            /\ running' = c
            /\ co' = [co EXCEPT ![c].pc = "loaded", ![c].now = clock]
            /\ UNCHANGED result
    /\ UNCHANGED <<document, serving, boot_document, zvars, bvars, ivars, wvars, kvars>>

\* lines 72-97: the presence window, get_current_presence, the tally
Gather(c) ==
    /\ Scheduled(c)
    /\ co[c].pc = "loaded"
    /\ \E latest \in LatestChoices(RowsSince(events, WindowStart(co[c].now))) :
          LET t == Tally(get_current_presence(latest), NoLocals.counts, NoLocals.last_seen)
          IN  co' = [co EXCEPT ![c].pc = "read", ![c].zi = 1,
                               ![c].counts = t.counts, ![c].last_seen = t.last_seen]
    /\ running' = c
    /\ UNCHANGED <<document, model, serving, boot_document, result, zvars, bvars, ivars, wvars, kvars>>

\* the loop over the zones moves on to the next zone, or the function
\* returns (line 242) and the coroutine gives the event loop back
NextZone(c, entry) ==
    IF co[c].zi < Len(PolicyZones)
    THEN /\ co' = [co EXCEPT ![c].pc = "read", ![c].zi = @ + 1, ![c].prev = NoZoneState,
                              ![c].zones = Append(@, entry)]
         /\ running' = c
         /\ UNCHANGED result
    ELSE /\ co' = [co EXCEPT ![c] = NoLocals]
         /\ running' = "none"
         /\ result' = [result EXCEPT ![c] = "ok"]

\* lines 102-130, 144, 205: a zone without a regulation is reported at once;
\* for a regulated zone the cached state is read
ReadZone(c) ==
    /\ Scheduled(c)
    /\ co[c].pc = "read"
    /\ LET z == PolicyZones[co[c].zi] IN
       IF z.type \notin DOMAIN PolicyRegulations
       THEN NextZone(c, NoRegulationZone(z, NoZoneState, co[c].now).entry)
       ELSE /\ co' = [co EXCEPT ![c].pc = "write", ![c].prev = cache[z.zone_id]]
            /\ running' = c
            /\ UNCHANGED result
    /\ UNCHANGED <<document, model, serving, boot_document, zvars, bvars, ivars, wvars, kvars>>

\* lines 145-172, 174-240: state and since are computed from the value read,
\* and the cache entry of the zone is written (lines 171, 218)
WriteZone(c) ==
    /\ Scheduled(c)
    /\ co[c].pc = "write"
    /\ LET z == PolicyZones[co[c].zi]
           res == EvaluateZone(z, co[c].counts[z.zone_id], co[c].last_seen[z.zone_id],
                               co[c].prev, co[c].now)
       IN  /\ cache' = [cache EXCEPT ![z.zone_id] = res.cached]
           /\ NextZone(c, res.entry)
    /\ UNCHANGED <<document, model, serving, boot_document, clock, events, zobs, bvars, ivars, wvars, kvars>>

NextServe ==
    \/ Startup
    \/ EditDocument
    \/ AdvanceServe
    \/ PostServe
    \/ \E c \in Coroutines : Load(c) \/ Gather(c) \/ ReadZone(c) \/ WriteZone(c)

SpecServe == InitServe /\ [][NextServe]_vars

\* ------------------------------------------------ ingest.py, sampled frames
\* the settings of the deployments looked at: short durations, every
\* heartbeat period in 0..MaxHeartbeat
IngestSettings ==
    {[active_confirm_seconds |-> 1, idle_seconds |-> 2, away_seconds |-> 2,
      presence_heartbeat_seconds |-> h, motion_active_threshold |-> 1] :
        h \in 0..MaxHeartbeat}

\* lines 113-117
_behavior_cfg ==
    [active_confirm_seconds |-> settings.active_confirm_seconds,
     idle_seconds |-> settings.idle_seconds,
     away_seconds |-> settings.away_seconds]

\* employee ids best_match can return ("": no match, an anonymous face)
Employees == {"emp1", ""}

\* line 354: f"{employee_id}@{source_id}" or f"anon@{source_id}", for the
\* source camera-1
SubjectKey(employee_id) ==
    IF employee_id = "" THEN "anon@camera-1" ELSE "emp1@camera-1"

\* line 318: an away push is at least this long after the last push
SweepMinGap == 1

\* api main.py line 486: uuid.UUID(employee_id) succeeds for the ids of the
\* employees; a subject key, an id followed by @ and the source, raises
IsUuid(v) == v \in Employees \ {""}

\* line 323: subject.startswith("anon"), over the subject keys of line 354:
\* the key of an unmatched face starts with anon, the key of an employee
\* starts with the employee's id
StartsWithAnon(subject) == subject = SubjectKey("")

\* lines 323-324: the employee_id and the anonymous_track_id of the away
\* event of the sweep ("" is None)
SweepEmployeeId(subject) == IF StartsWithAnon(subject) THEN "" ELSE subject

SweepTrackId(subject) == IF StartsWithAnon(subject) THEN subject ELSE ""

\* lines 439-440: the employee_id and the anonymous_track_id of the event of
\* a frame with a face
FaceEmployeeId(employee_id) == employee_id

FaceTrackId(employee_id, subject) == IF employee_id # "" THEN "" ELSE subject

\* mutant of should_send: every frame with a face is pushed
ShouldSendAlways(st_, status_, t) == TRUE

\* lines 424-428
should_send(st_, status_, t) ==
    \/ st_.last_status # status_
    \/ t - st_.last_sent_ts >= settings.presence_heartbeat_seconds

\* lines 346-468: a sampled frame with a face, of employee_id or of nobody
\* known; m is the motion average the frame leaves (lines 363-366: the
\* average of an unconstrained distance, 0 on the first sighting).  The
\* result: the subject map, the presence events pushed, the frame.
FaceFrame(subs, employee_id, m, t) ==
    LET k == SubjectKey(employee_id)
        known == k \in DOMAIN subs
        st0 == IF known THEN subs[k] ELSE NewSubjectState
        ema == IF known THEN m ELSE 0
        st1 == [st0 EXCEPT !.last_seen_ts = t, !.motion_ema = ema]
        r == update_behavior_state(_behavior_cfg, st1.behavior,
                 [face_present |-> TRUE, motion_value |-> ema,
                  motion_threshold |-> settings.motion_active_threshold], t)
        send == should_send(st1, r.ret, t)
        st2 == [st1 EXCEPT !.behavior = r.st,
                           !.last_status = IF send THEN r.ret ELSE @,
                           !.last_sent_ts = IF send THEN t ELSE @]
    IN  [subjects |-> (k :> st2) @@ subs,
         sent |-> IF send
                  THEN {[subject |-> k, event |-> r.ret, ts |-> t,
                         employee_id |-> FaceEmployeeId(employee_id),
                         anonymous_track_id |-> FaceTrackId(employee_id, k)]}
                  ELSE {},
         frame |-> [kind |-> "face", subject |-> k, status |-> r.ret]]

\* mutant of NoFaceFrame: the sweep does not look at the last status
NoFaceFrameRepeats(subs, t) ==
    LET due(k) ==   /\ t - subs[k].last_seen_ts >= settings.away_seconds
                    /\ t - subs[k].last_sent_ts >= SweepMinGap
    IN  [subjects |-> [k \in DOMAIN subs |->
                          IF due(k)
                          THEN [subs[k] EXCEPT !.last_status = "away", !.last_sent_ts = t]
                          ELSE subs[k]],
         sent |-> {[subject |-> k, event |-> "away", ts |-> t,
                    employee_id |-> SweepEmployeeId(k),
                    anonymous_track_id |-> SweepTrackId(k)] :
                      k \in {x \in DOMAIN subs : due(x)}},
         frame |-> [kind |-> "noface", subject |-> "", status |-> "none"]]

\* lines 314-343: a sampled frame without a face: the away sweep
NoFaceFrame(subs, t) ==
    LET due(k) ==   /\ t - subs[k].last_seen_ts >= settings.away_seconds
                    /\ subs[k].last_status # "away"
                    /\ t - subs[k].last_sent_ts >= SweepMinGap
    IN  [subjects |-> [k \in DOMAIN subs |->
                          IF due(k)
                          THEN [subs[k] EXCEPT !.last_status = "away", !.last_sent_ts = t]
                          ELSE subs[k]],
         sent |-> {[subject |-> k, event |-> "away", ts |-> t,
                    employee_id |-> SweepEmployeeId(k),
                    anonymous_track_id |-> SweepTrackId(k)] :
                      k \in {x \in DOMAIN subs : due(x)}},
         frame |-> [kind |-> "noface", subject |-> "", status |-> "none"]]

\* one worker thread is connected and inside its frame loop
WRunning ==
    /\ _stop = FALSE
    /\ _running = TRUE
    /\ _connected = TRUE
    /\ _thread = 1
    /\ _frames_processed = 0
    /\ tpc = [t \in Threads |-> IF t = 1 THEN "frame" ELSE "unborn"]
    /\ cpc = [c \in Callers |-> "idle"]
    /\ saw_stop = [t \in Threads |-> FALSE]
    /\ last_call = "start"

InitIngest ==
    /\ ZIdle /\ BIdle /\ SIdle /\ WRunning /\ KIdle
    /\ settings \in IngestSettings
    /\ wall = 0
    /\ _subjects = << >>
    /\ sent = {}
    /\ last_frame = NoFrame
    /\ swept = {}

\* time passes between two sampled frames
AdvanceWall ==
    /\ wall < MaxWall
    /\ wall' = wall + 1
    /\ UNCHANGED <<settings, _subjects, sent, last_frame, swept, bvars, zvars, svars, wvars, kvars>>

\* the motion averages looked at: none, and the threshold
MotionLevels == {0, settings.motion_active_threshold}

\* the frame loop samples a frame with a face
FrameWithFace ==
    \E e \in Employees, m \in MotionLevels :
        LET f == FaceFrame(_subjects, e, m, wall)
        IN  /\ _subjects' = f.subjects
            /\ sent' = f.sent
            /\ last_frame' = f.frame
            /\ swept' = swept \ {f.frame.subject}
            /\ UNCHANGED <<settings, wall, bvars, zvars, svars, wvars, kvars>>

\* the frame loop samples a frame without a face
FrameWithoutFace ==
    LET f == NoFaceFrame(_subjects, wall)
    IN  /\ _subjects' = f.subjects
        /\ sent' = f.sent
        /\ last_frame' = f.frame
        /\ swept' = swept \cup {p.subject : p \in f.sent}
        /\ UNCHANGED <<settings, wall, bvars, zvars, svars, wvars, kvars>>

NextIngest == AdvanceWall \/ FrameWithFace \/ FrameWithoutFace

SpecIngest == InitIngest /\ [][NextIngest]_vars

\* the worker keeps sampling frames (line 291), and time passes; what a
\* frame shows is up to the scene
SpecIngestFair ==
    /\ InitIngest /\ [][NextIngest]_vars
    /\ WF_vars(FrameWithFace \/ FrameWithoutFace)
    /\ WF_vars(AdvanceWall)

\* ------------------------------------ ingest.py, start(), stop() and _run
\* Thread.is_alive(): from Thread.start() until run() has ended
Alive(t) == tpc[t] \notin {"unborn", "dead"}

\* the thread executes _run
InRun(t) == tpc[t] \in {"outer", "open", "inner", "frame", "reconnect", "final"}

InitWorkers == ZIdle /\ BIdle /\ SIdle /\ IIdle /\ WIdle /\ KIdle

\* main.py ingest_start is a plain `def` endpoint: the requests run on the
\* threads of a pool, side by side.  start(), line 120: the test of _thread
StartCheck(c) ==
    /\ cpc[c] = "idle"
    /\ cpc' = [cpc EXCEPT ![c] = IF _thread # 0 /\ Alive(_thread)
                                 THEN "idle" ELSE "start_checked"]
    /\ last_call' = IF _thread # 0 /\ Alive(_thread) THEN "start" ELSE last_call
    /\ UNCHANGED <<_stop, _running, _connected, _thread, _frames_processed, tpc, saw_stop,
                   bvars, zvars, svars, ivars, kvars>>

\* start(), lines 122-126: the flags are reset, a thread is made and started
StartCreate(c) ==
    /\ cpc[c] = "start_checked"
    /\ \E t \in Threads :
          /\ tpc[t] = "unborn"
          /\ \A u \in Threads : tpc[u] = "unborn" => t <= u
          /\ _thread' = t
          /\ tpc' = [tpc EXCEPT ![t] = "start"]
    /\ _frames_processed' = 0
    /\ _connected' = FALSE
    /\ _stop' = FALSE
    /\ cpc' = [cpc EXCEPT ![c] = "idle"]
    /\ last_call' = "start"
    /\ UNCHANGED <<_running, saw_stop, bvars, zvars, svars, ivars, kvars>>

\* stop(), lines 130-131
StopSet(c) ==
    /\ cpc[c] = "idle"
    /\ _stop' = TRUE
    /\ _connected' = FALSE
    /\ cpc' = [cpc EXCEPT ![c] = "stop_join"]
    /\ UNCHANGED <<last_call, _running, _thread, _frames_processed, tpc, saw_stop,
                   bvars, zvars, svars, ivars, kvars>>

\* stop(), lines 132-133: join(timeout=2.0) returns when the thread has
\* ended, or after two seconds
StopJoin(c) ==
    /\ cpc[c] = "stop_join"
    /\ cpc' = [cpc EXCEPT ![c] = "idle"]
    /\ last_call' = "stop"
    /\ UNCHANGED <<_stop, _running, _connected, _thread, _frames_processed, tpc, saw_stop,
                   bvars, zvars, svars, ivars, kvars>>

\* _run, line 249
RunBegin(t) ==
    /\ tpc[t] = "start"
    /\ _running' = TRUE
    /\ tpc' = [tpc EXCEPT ![t] = "outer"]
    /\ UNCHANGED <<last_call, _stop, _connected, _thread, _frames_processed, cpc, saw_stop,
                   bvars, zvars, svars, ivars, kvars>>

\* line 253: while not self._stop.is_set()
OuterTest(t) ==
    /\ tpc[t] = "outer"
    /\ tpc' = [tpc EXCEPT ![t] = IF _stop THEN "final" ELSE "open"]
    /\ saw_stop' = [saw_stop EXCEPT ![t] = @ \/ _stop]
    /\ UNCHANGED <<last_call, _stop, _running, _connected, _thread, _frames_processed, cpc,
                   bvars, zvars, svars, ivars, kvars>>

\* lines 254-288: the capture opens or not (then the synthetic sender finds
\* its period not over, and the thread sleeps); with the capture open the
\* face model loads or not
Open(t) ==
    /\ tpc[t] = "open"
    /\ \E opened \in BOOLEAN, loaded \in BOOLEAN :
          /\ _connected' = opened
          /\ tpc' = [tpc EXCEPT ![t] = IF opened /\ loaded THEN "inner" ELSE "outer"]
    /\ UNCHANGED <<last_call, _stop, _running, _thread, _frames_processed, cpc, saw_stop,
                   bvars, zvars, svars, ivars, kvars>>

\* line 291: while not self._stop.is_set()
InnerTest(t) ==
    /\ tpc[t] = "inner"
    /\ tpc' = [tpc EXCEPT ![t] = IF _stop THEN "reconnect" ELSE "frame"]
    /\ saw_stop' = [saw_stop EXCEPT ![t] = @ \/ _stop]
    /\ UNCHANGED <<last_call, _stop, _running, _connected, _thread, _frames_processed, cpc,
                   bvars, zvars, svars, ivars, kvars>>

\* lines 292-297: cap.read() fails
ReadFails(t) ==
    /\ tpc[t] = "frame"
    /\ _connected' = FALSE
    /\ tpc' = [tpc EXCEPT ![t] = "reconnect"]
    /\ UNCHANGED <<last_call, _stop, _running, _thread, _frames_processed, cpc, saw_stop,
                   bvars, zvars, svars, ivars, kvars>>

\* lines 299-468: a sampled frame is processed: a face at rest, or no face
ProcessFrame(t) ==
    /\ tpc[t] = "frame"
    /\ _frames_processed < MaxFrames
    /\ _frames_processed' = _frames_processed + 1
    /\ \E f \in {FaceFrame(_subjects, e, 0, wall) : e \in Employees}
                 \cup {NoFaceFrame(_subjects, wall)} :
          /\ _subjects' = f.subjects
          /\ sent' = f.sent
          /\ last_frame' = f.frame
          /\ swept' = IF f.frame.kind = "face"
                      THEN swept \ {f.frame.subject}
                      ELSE swept \cup {p.subject : p \in f.sent}
    /\ tpc' = [tpc EXCEPT ![t] = "inner"]
    /\ UNCHANGED <<last_call, _stop, _running, _connected, _thread, cpc, saw_stop,
                   settings, wall, bvars, zvars, svars, kvars>>

\* lines 473-474: an exception inside the loops
Crash(t) ==
    /\ tpc[t] = "frame"
    /\ tpc' = [tpc EXCEPT ![t] = "final"]
    /\ UNCHANGED <<last_call, _stop, _running, _connected, _thread, _frames_processed, cpc, saw_stop,
                   bvars, zvars, svars, ivars, kvars>>

\* lines 470-472: after the frame loop
Reconnect(t) ==
    /\ tpc[t] = "reconnect"
    /\ _connected' = FALSE
    /\ tpc' = [tpc EXCEPT ![t] = "outer"]
    /\ UNCHANGED <<last_call, _stop, _running, _thread, _frames_processed, cpc, saw_stop,
                   bvars, zvars, svars, ivars, kvars>>

\* lines 475-477: finally
Final(t) ==
    /\ tpc[t] = "final"
    /\ _running' = FALSE
    /\ _connected' = FALSE
    /\ tpc' = [tpc EXCEPT ![t] = "dead"]
    /\ UNCHANGED <<last_call, _stop, _thread, _frames_processed, cpc, saw_stop,
                   bvars, zvars, svars, ivars, kvars>>

WorkerStep(t) ==
    \/ RunBegin(t) \/ OuterTest(t) \/ Open(t) \/ InnerTest(t)
    \/ ReadFails(t) \/ ProcessFrame(t) \/ Crash(t) \/ Reconnect(t) \/ Final(t)

CallerStep(c) == StartCheck(c) \/ StartCreate(c) \/ StopSet(c) \/ StopJoin(c)

NextWorkers ==
    \/ \E c \in Callers : CallerStep(c)
    \/ \E t \in Threads : WorkerStep(t)

SpecWorkers == InitWorkers /\ [][NextWorkers]_vars

\* a started thread is scheduled again and again, and every read, push and
\* sleep of it returns
SpecWorkersFair ==
    InitWorkers /\ [][NextWorkers]_vars /\ \A t \in Threads : WF_vars(WorkerStep(t))

\* --------------------------------------------------- ws.py, the manager
\* line 21: set.remove(websocket) raises KeyError for a websocket not in the set
Remove(conns, w) == [connections |-> conns \ {w}, KeyError |-> w \notin conns]

\* mutant of disconnect: the KeyError is not caught
DisconnectUnguarded(conns, w) ==
    LET r == Remove(conns, w)
    IN  [connections |-> r.connections, raised |-> r.KeyError]

\* lines 18-23: disconnect(websocket); the KeyError is caught
disconnect(conns, w) ==
    LET r == Remove(conns, w)
    IN  [connections |-> r.connections, raised |-> FALSE]

InitWs == ZIdle /\ BIdle /\ SIdle /\ IIdle /\ WIdle /\ KIdle

\* main.py line 898, ws.py line 14: connect() awaits websocket.accept(),
\* which returns, or raises when the client has gone
Accept(w) ==
    /\ sock[w] = "new"
    /\ sock' = [sock EXCEPT ![w] = IF w \in closed THEN "failed" ELSE "accepted"]
    /\ UNCHANGED <<_connections, closed, tasks, broadcasts, ws_error, dropped, missed,
                   bvars, zvars, svars, ivars, wvars>>

\* ws.py lines 15-16: the websocket is added; the handler goes on to
\* receive_text (main.py lines 900-901)
Add(w) ==
    /\ sock[w] = "accepted"
    /\ _connections' = _connections \cup {w}
    /\ sock' = [sock EXCEPT ![w] = "open"]
    /\ UNCHANGED <<closed, tasks, broadcasts, ws_error, dropped, missed,
                   bvars, zvars, svars, ivars, wvars>>

\* the client closes the connection, or the network drops it
PeerCloses(w) ==
    /\ w \notin closed
    /\ sock[w] \in {"new", "accepted", "open"}
    /\ closed' = closed \cup {w}
    /\ UNCHANGED <<_connections, sock, tasks, broadcasts, ws_error, dropped, missed,
                   bvars, zvars, svars, ivars, wvars>>

\* main.py lines 902-903: receive_text raises WebSocketDisconnect, and the
\* handler calls disconnect
Disconnect(w) ==
    /\ sock[w] = "open"
    /\ w \in closed
    /\ LET d == disconnect(_connections, w)
       IN  /\ _connections' = d.connections
           /\ ws_error' = (ws_error \/ d.raised)
    /\ missed' = IF w \in _connections THEN missed ELSE missed \cup {w}
    /\ sock' = [sock EXCEPT ![w] = "done"]
    /\ UNCHANGED <<closed, tasks, broadcasts, dropped,
                   bvars, zvars, svars, ivars, wvars>>

\* ws.py lines 25-33: broadcast_json, called on the event loop: one task per
\* websocket of the list copied from the set
Broadcast ==
    /\ broadcasts < MaxBroadcasts
    /\ broadcasts' = broadcasts + 1
    /\ tasks' = tasks \cup {[ws |-> w, msg |-> broadcasts + 1] : w \in _connections}
    /\ UNCHANGED <<_connections, sock, closed, ws_error, dropped, missed,
                   bvars, zvars, svars, ivars, wvars>>

\* ws.py lines 35-39: a task runs _safe_send: the send goes through, or it
\* raises and the websocket is disconnected
SafeSend(tk) ==
    /\ tk \in tasks
    /\ tasks' = tasks \ {tk}
    /\ IF tk.ws \in closed
       THEN LET d == disconnect(_connections, tk.ws)
            IN  /\ _connections' = d.connections
                /\ ws_error' = (ws_error \/ d.raised)
                /\ dropped' = IF tk.ws \in _connections THEN dropped \cup {tk.ws} ELSE dropped
                /\ missed' = IF tk.ws \in _connections THEN missed ELSE missed \cup {tk.ws}
       ELSE UNCHANGED <<_connections, ws_error, dropped, missed>>
    /\ UNCHANGED <<sock, closed, broadcasts,
                   bvars, zvars, svars, ivars, wvars>>

NextWs ==
    \/ \E w \in Sockets : Accept(w) \/ Add(w) \/ PeerCloses(w) \/ Disconnect(w)
    \/ Broadcast
    \/ \E tk \in tasks : SafeSend(tk)

SpecWs == InitWs /\ [][NextWs]_vars

\* ------------------------------------------------------ behaviour, claims
\* elapsed time of a since marker at the last call, computed from the state
Elapsed(since_ts) ==
    IF since_ts = None THEN 0
    ELSE IF now_ts >= since_ts THEN now_ts - since_ts ELSE 0

PositiveDurations ==
    /\ cfg.active_confirm_seconds > 0
    /\ cfg.idle_seconds > 0
    /\ cfg.away_seconds > 0

\* C1: every call returns one of active, idle, away, the cold-start call
\* included; it never returns the unset state.
C1_ReturnsAState == called => status \in {"active", "idle", "away"}

C1_Witness ==
    called /\ prev_state = "none" /\ sig.face_present /\ status = "idle"

\* C2: away dominance: on a tick where the elapsed no-face time is at least
\* away_seconds the call returns away, whatever the previous state was.
C2_AwayDominance ==
    (called /\ Elapsed(st.no_face_since) >= cfg.away_seconds) => status = "away"

C2_Witness ==
    /\ called /\ ~sig.face_present /\ cfg.away_seconds > 0
    /\ st.no_face_since # None
    /\ now_ts - st.no_face_since >= cfg.away_seconds
    /\ status = "away"

\* C3: away is debounced: from active or idle the call returns away only on
\* a tick where the face has been absent for at least away_seconds.
C3_AwayDebounced ==
    (called /\ prev_state \in {"active", "idle"} /\ status = "away")
        => /\ ~sig.face_present
           /\ absentFrom # None
           /\ now_ts - absentFrom >= cfg.away_seconds

\* C4: stickiness: previous state active or idle, face present, neither the
\* idle nor the active window met: the output is the previous state.
C4_Stickiness ==
    ( /\ called /\ prev_state \in {"active", "idle"} /\ sig.face_present
      /\ Elapsed(st.no_motion_since) < cfg.idle_seconds
      /\ Elapsed(st.motion_active_since) < cfg.active_confirm_seconds )
        => status = prev_state

C4_Witness ==
    /\ called /\ prev_state = "active" /\ sig.face_present
    /\ sig.motion_value < sig.motion_threshold
    /\ Elapsed(st.no_motion_since) < cfg.idle_seconds
    /\ Elapsed(st.motion_active_since) < cfg.active_confirm_seconds
    /\ status = "active"

\* C5: return optimism: with strictly positive durations, a face-present tick
\* after away returns active if motion_value >= motion_threshold and idle
\* otherwise, on that same tick.
C5_ReturnOptimism ==
    (called /\ PositiveDurations /\ prev_state = "away" /\ sig.face_present)
        => status = IF sig.motion_value >= sig.motion_threshold
                    THEN "active" ELSE "idle"

C5_Witness ==
    /\ called /\ PositiveDurations /\ prev_state = "away" /\ sig.face_present
    /\ sig.motion_value < sig.motion_threshold
    /\ status = "idle"

\* the confirmation rules over a face-present run of ticks with increasing
\* timestamps: motion at or above the threshold since motionFrom for at least
\* active_confirm_seconds gives active; below it for at least idle_seconds
\* gives idle
ConfirmationFires ==
    (called /\ sig.face_present /\ inOrder /\ motionFrom # None)
        => /\ ( /\ sig.motion_value >= sig.motion_threshold
                /\ now_ts - motionFrom >= cfg.active_confirm_seconds )
                  => status = "active"
           /\ ( /\ sig.motion_value < sig.motion_threshold
                /\ now_ts - motionFrom >= cfg.idle_seconds )
                  => status = "idle"

C7_SinceIdempotent ==
    [][ called =>
          /\ (sig.face_present /\ sig'.face_present /\ st.face_present_since # None)
                => st'.face_present_since = st.face_present_since
          /\ (~sig.face_present /\ ~sig'.face_present /\ st.no_face_since # None)
                => st'.no_face_since = st.no_face_since
          /\ ( /\ sig.face_present /\ sig'.face_present
               /\ MotionActive(sig) /\ MotionActive(sig')
               /\ st.motion_active_since # None )
                => st'.motion_active_since = st.motion_active_since
          /\ ( /\ sig.face_present /\ sig'.face_present
               /\ ~MotionActive(sig) /\ ~MotionActive(sig')
               /\ st.no_motion_since # None )
                => st'.no_motion_since = st.no_motion_since
          /\ (~sig.face_present /\ sig'.face_present)
                => st'.face_present_since = now_ts'
          /\ (sig.face_present /\ ~sig'.face_present)
                => st'.no_face_since = now_ts'
          /\ (sig'.face_present /\ MotionActive(sig')
                /\ ~(sig.face_present /\ MotionActive(sig)))
                => st'.motion_active_since = now_ts'
          /\ (sig'.face_present /\ ~MotionActive(sig')
                /\ ~(sig.face_present /\ ~MotionActive(sig)))
                => st'.no_motion_since = now_ts'
      ]_vars

\* C8: after every call at most one marker of the face pair and at most one
\* of the motion pair is set, and after a face-absent tick no motion marker
\* is set.
C8_MarkersExclusive ==
    called =>
        /\ ~(st.face_present_since # None /\ st.no_face_since # None)
        /\ ~(st.motion_active_since # None /\ st.no_motion_since # None)
        /\ ~sig.face_present
              => (st.motion_active_since = None /\ st.no_motion_since = None)

C8_Witness ==
    /\ called /\ ~sig.face_present /\ prev_state = "active"
    /\ st.no_face_since # None /\ st.face_present_since = None
    /\ st.motion_active_since = None /\ st.no_motion_since = None

\* C9: after every call the stored last_state is the value the call returned.
C9_LastStateIsReturned == called => st.last_state = status

C9_Witness ==
    /\ called /\ prev_state = "away" /\ sig.face_present
    /\ status = "active" /\ st.last_state = "active"

\* ------------------------------------------------------ compliance, claims
\* C10: compliance hysteresis: for every zone and two consecutive
\* evaluations, if the computed state (the state at the hysteresis test) is
\* the same in both, the reported since is the same in both, and if it
\* differs, the since of the second is the timestamp of the second.
C10_Hysteresis ==
    [][ eval_now # None =>
          \A i \in DOMAIN out.zones :
              LET zid == out.zones[i].zone_id IN
              /\ computed'[zid] = computed[zid]
                    => out'.zones[i].since = out.zones[i].since
              /\ computed'[zid] # computed[zid]
                    => out'.zones[i].since = eval_now'
      ]_vars

\* the zone of index i of the policy has a regulation (line 106)
HasRegulation(i) == PolicyZones[i].type \in DOMAIN PolicyRegulations

RegulationOf(i) == PolicyRegulations[PolicyZones[i].type]

EscalationOf(i) == Get(RegulationOf(i), "violation_escalation_seconds", << >>)

\* the last evaluation tallied a record for the zone
HasPresence(zid) == \E r \in RoleNames : zone_counts[zid][r] > 0

\* a step that is one call of evaluate_zone_compliance
EvaluateStep == clock' = clock /\ events' = events /\ eval_now' = clock

\* C11: escalation persists: when a zone is reported CRITICAL_VIOLATION and
\* the next evaluation finds the same violations, the next evaluation reports
\* CRITICAL_VIOLATION again; it does not fall back to the unescalated state.
C11_EscalationPersists ==
    [][ (eval_now # None /\ EvaluateStep) =>
          \A i \in DOMAIN out.zones :
              ( /\ out.zones[i].state = "CRITICAL_VIOLATION"
                /\ out'.zones[i].violations = out.zones[i].violations )
                  => out'.zones[i].state = "CRITICAL_VIOLATION"
      ]_vars

\* C12: escalation timing: a zone whose computed state is UNDERSTAFFED is
\* reported CRITICAL_VIOLATION exactly on the ticks where now - since is at
\* least the understaffed escalation seconds (boundary included).
C12_EscalationTiming ==
    eval_now # None =>
        \A i \in DOMAIN out.zones :
            (HasRegulation(i) /\ computed[out.zones[i].zone_id] = "UNDERSTAFFED")
                => ( out.zones[i].state = "CRITICAL_VIOLATION"
                     <=> eval_now - out.zones[i].since
                            >= Get(EscalationOf(i), "understaffed", DefaultUnderstaffed) )

\* C13: CRITICAL_VIOLATION is reported only for a computed state UNDERSTAFFED
\* or OVERSTAFFED with now - since above the understaffed seconds, or
\* UNAUTHORIZED_PERSON with now - since above the unauthorized seconds; a
\* COMPLIANT, UNKNOWN or INITIALIZING zone is reported as computed.
C13_CriticalOnlyByEscalation ==
    eval_now # None =>
        \A i \in DOMAIN out.zones :
            LET z == out.zones[i]
                cs == computed[z.zone_id]
            IN  /\ z.state = "CRITICAL_VIOLATION" =>
                    /\ HasRegulation(i)
                    /\ \/ /\ cs \in {"UNDERSTAFFED", "OVERSTAFFED"}
                          /\ eval_now - z.since >
                                Get(EscalationOf(i), "understaffed", DefaultUnderstaffed)
                       \/ /\ cs = "UNAUTHORIZED_PERSON"
                          /\ eval_now - z.since >
                                Get(EscalationOf(i), "unauthorized", DefaultUnauthorized)
                /\ cs \in {"COMPLIANT", "UNKNOWN", "INITIALIZING"} => z.state = cs

C13_Witness ==
    /\ eval_now # None
    /\ \E i \in DOMAIN out.zones :
          /\ out.zones[i].state = "CRITICAL_VIOLATION"
          /\ computed[out.zones[i].zone_id] = "UNDERSTAFFED"
          /\ eval_now - out.zones[i].since > DefaultUnderstaffed

\* the role stored with a row of presence_events: the first key of role,
\* staff_role, entity_role its payload has, else unknown
StoredRole(e) ==
    LET role == _role_from_payload(e.payload)
    IN  IF role = "" THEN "unknown" ELSE role

\* the rows of the table an evaluation at the current time reads that come
\* from a camera of the zone (one row per subject)
RowsOfZone(zid) ==
    {e \in RowsSince(events, WindowStart(clock)) : CameraToZone(e.source_id) = zid}

\* the number of subjects in the zone whose stored role is r
StoredCount(zid, r) == Cardinality({e \in RowsOfZone(zid) : StoredRole(e) = r})

RoleEntry(v) == v[1] \in {"forbidden", "unauthorized"}

\* C14: in a regulated zone with presence, every role present that is
\* forbidden gives forbidden:<role>, every role present without permission
\* for the zone type (or unknown to the policy) gives unauthorized:<role>;
\* with such a violation the computed state is UNAUTHORIZED_PERSON, and the
\* missing:<role> entries are in the list as well.
C14_RoleViolations ==
    [][ EvaluateStep =>
          \A i \in DOMAIN PolicyZones :
              LET zid == PolicyZones[i].zone_id
                  present == {StoredRole(e) : e \in RowsOfZone(zid)}
              IN  (HasRegulation(i) /\ present # {}) =>
                    LET forbidden == Get(RegulationOf(i), "forbidden_roles", {})
                        lacking == {r \in present :
                                      IF r \in DOMAIN PolicyRoles
                                      THEN PolicyZones[i].type \notin PolicyRoles[r].permissions
                                      ELSE TRUE}
                        expected == {<<"forbidden", r>> : r \in present \cap forbidden}
                                    \cup {<<"unauthorized", r>> : r \in lacking}
                        required == Get(RegulationOf(i), "required_roles", << >>)
                    IN  /\ expected \subseteq out'.zones[i].violations
                        /\ expected # {} => computed'[zid] = "UNAUTHORIZED_PERSON"
                        /\ \A k \in DOMAIN required :
                              StoredCount(zid, required[k].role_id) < Get(required[k], "min", 0)
                                => <<"missing", required[k].role_id>> \in out'.zones[i].violations
      ]_vars

\* C15: in a regulated zone, for every required role: a count below min
\* gives missing:<role>, a count above max gives over:<role>, and without
\* forbidden / unauthorized entries the computed state is UNDERSTAFFED,
\* respectively OVERSTAFFED.
C15_Staffing ==
    [][ EvaluateStep =>
          \A i \in DOMAIN PolicyZones :
              HasRegulation(i) =>
                LET zid == PolicyZones[i].zone_id
                    required == Get(RegulationOf(i), "required_roles", << >>)
                    violations == out'.zones[i].violations
                    noRoleEntry == ~\E v \in violations : RoleEntry(v)
                IN  \A k \in DOMAIN required :
                      LET role == required[k].role_id
                          cnt == StoredCount(zid, role)
                      IN  /\ cnt < Get(required[k], "min", 0) =>
                                /\ <<"missing", role>> \in violations
                                /\ noRoleEntry => computed'[zid] = "UNDERSTAFFED"
                          /\ cnt > Get(required[k], "max", 999) =>
                                /\ <<"over", role>> \in violations
                                /\ noRoleEntry => computed'[zid] = "OVERSTAFFED"
      ]_vars

\* C16: a zone with a regulation and recent presence is reported COMPLIANT
\* exactly when its reported violations are empty.
C16_CompliantIffNoViolations ==
    eval_now # None =>
        \A i \in DOMAIN out.zones :
            (HasRegulation(i) /\ HasPresence(out.zones[i].zone_id))
                => (out.zones[i].state = "COMPLIANT" <=> out.zones[i].violations = {})

C16_Witness ==
    /\ eval_now # None
    /\ \E i \in DOMAIN out.zones :
          /\ HasRegulation(i) /\ HasPresence(out.zones[i].zone_id)
          /\ out.zones[i].state = "COMPLIANT"
          /\ out.zones[i].violations = {}

\* C17: a regulated zone without presence in the window is reported
\* INITIALIZING as long as no evaluation has found presence in it, and
\* UNKNOWN only when an earlier evaluation did.
C17_InitializingUntilObserved ==
    eval_now # None =>
        \A i \in DOMAIN out.zones :
            LET zid == out.zones[i].zone_id IN
            (HasRegulation(i) /\ ~HasPresence(zid)) =>
                /\ ~observed[zid] => out.zones[i].state = "INITIALIZING"
                /\ out.zones[i].state = "UNKNOWN" => observed[zid]

\* C18: a zone whose type has no regulation gets an info-severity entry and
\* event with no violations, INITIALIZING when the cache has no state for the
\* zone and UNKNOWN when it has one.
C18_NoRegulation ==
    [][ EvaluateStep =>
          \A i \in DOMAIN PolicyZones :
              ~HasRegulation(i) =>
                LET expected == IF cache[PolicyZones[i].zone_id] = NoZoneState
                                THEN "INITIALIZING" ELSE "UNKNOWN"
                IN  /\ out'.zones[i].severity = "info"
                    /\ out'.events[i].severity = "info"
                    /\ out'.zones[i].violations = {}
                    /\ out'.events[i].violations = {}
                    /\ out'.zones[i].state = expected
      ]_vars

\* C19: every record is tallied under the role stored with its event: the
\* count of a role in a zone is the number of subjects in the zone whose
\* row has that role in its payload (unknown when the payload has none).
C19_TalliedByPayloadRole ==
    [][ EvaluateStep =>
          \A zid \in ZoneIds : \A r \in RoleNames :
              zone_counts'[zid][r] = StoredCount(zid, r)
      ]_vars

\* C20: the last_seen cached for a zone is the most recent last_seen_ts of
\* the records mapped to the zone.
C20_LastSeenIsMostRecent ==
    [][ EvaluateStep =>
          \A i \in DOMAIN PolicyZones :
              LET zid == PolicyZones[i].zone_id IN
              (HasRegulation(i) /\ RowsOfZone(zid) # {}) =>
                  \A e \in RowsOfZone(zid) : cache'[zid].last_seen >= e.ts
      ]_vars

\* ------------------------------------------- compliance, claims on a table
\* the rows of the staleness window at the time of the evaluation
WindowRows == RowsSince(events, WindowStart(clock))

\* the newest rows of subject sb in the window (several when their ts agree)
NewestRows(sb) ==
    {e \in WindowRows : /\ SubjectOf(e) = sb
                        /\ \A f \in WindowRows : SubjectOf(f) = sb => f.ts <= e.ts}

WindowSubjects == {SubjectOf(e) : e \in WindowRows}

RECURSIVE SumOf(_, _)
\* the sum of f over the set S
SumOf(f, S) ==
    IF S = {} THEN 0
    ELSE LET x == CHOOSE y \in S : TRUE IN f[x] + SumOf(f, S \ {x})

\* the people counted in a zone: the sum of its role counts
ZoneTotal(counts) == SumOf(counts, DOMAIN counts)

\* C35: in one evaluation each subject contributes to the role counts of at
\* most one zone, the zone of the source of its latest presence event in the
\* staleness window; the sum of all role counts over all zones never exceeds
\* the number of distinct subjects in the snapshot.
C35_OneZonePerSubject ==
    [][ EvaluateStep =>
          /\ \E pick \in [WindowSubjects -> WindowRows] :
                /\ \A sb \in WindowSubjects : pick[sb] \in NewestRows(sb)
                /\ \A zid \in ZoneIds :
                      ZoneTotal(zone_counts'[zid]) =
                          Cardinality({sb \in WindowSubjects :
                                          CameraToZone(pick[sb].source_id) = zid})
          /\ SumOf([zid \in ZoneIds |-> ZoneTotal(zone_counts'[zid])], ZoneIds)
                <= Cardinality(WindowSubjects)
      ]_vars

\* a subject with an older row in another zone than its newest row has been
\* evaluated
C35_Witness ==
    /\ eval_now = clock
    /\ \E e \in WindowRows, f \in WindowRows :
          /\ SubjectOf(e) = SubjectOf(f) /\ f.ts < e.ts
          /\ CameraToZone(e.source_id) # ""
          /\ CameraToZone(f.source_id) \notin {"", CameraToZone(e.source_id)}
          /\ ZoneTotal(zone_counts[CameraToZone(e.source_id)]) = 1
          /\ ZoneTotal(zone_counts[CameraToZone(f.source_id)]) = 0

\* C36: a subject whose latest presence event is away is not counted as
\* present in any zone: it adds nothing to the role counts of the zone, and
\* does not by itself make the zone one with recent presence.
C36_AwayNotCounted ==
    [][ EvaluateStep =>
          \A zid \in ZoneIds :
              LET here == {sb \in WindowSubjects :
                              \E e \in NewestRows(sb) :
                                  /\ CameraToZone(e.source_id) = zid
                                  /\ e.event # "away"}
              IN  /\ ZoneTotal(zone_counts'[zid]) <= Cardinality(here)
                  /\ here = {} => cache'[zid].last_seen = None
      ]_vars

\* C37: over evaluations with non-decreasing timestamps, every emitted zone
\* entry and compliance event has since <= ts, and the evaluation emits
\* exactly one zone entry and one event per configured zone, in zone order,
\* with equal state, violations and since in both.
C37_EntriesAndEvents ==
    eval_now # None =>
        /\ Len(out.zones) = Len(PolicyZones)
        /\ Len(out.events) = Len(PolicyZones)
        /\ \A i \in DOMAIN PolicyZones :
              /\ out.zones[i].zone_id = PolicyZones[i].zone_id
              /\ out.events[i].zone_id = PolicyZones[i].zone_id
              /\ out.events[i].ts = eval_now
              /\ out.zones[i].since <= eval_now
              /\ out.events[i].since <= out.events[i].ts
              /\ out.events[i].state = out.zones[i].state
              /\ out.events[i].violations = out.zones[i].violations
              /\ out.events[i].since = out.zones[i].since

\* an evaluation has reported a zone in a state it has been in since an
\* earlier evaluation
C37_Witness ==
    /\ eval_now # None
    /\ \E i \in DOMAIN out.zones :
          /\ out.zones[i].since < eval_now
          /\ out.zones[i].state \notin {"UNKNOWN", "INITIALIZING"}

\* ------------------------------------------- behaviour, claims (continued)
\* C25: the elapsed times of a call are never negative: 0 for an unset
\* marker, the difference now_ts - since_ts when it is positive, and 0 when
\* the timestamp lies before the marker.
C25_ElapsedNeverNegative ==
    called =>
        /\ elapsed.no_face_s >= 0
        /\ elapsed.no_motion_s >= 0
        /\ elapsed.motion_active_s >= 0
        /\ elapsed.no_face_s = Elapsed(st.no_face_since)
        /\ elapsed.no_motion_s = Elapsed(st.no_motion_since)
        /\ elapsed.motion_active_s = Elapsed(st.motion_active_since)

C25_Witness ==
    /\ called /\ st.no_face_since # None
    /\ now_ts < st.no_face_since
    /\ elapsed.no_face_s = 0

\* the output changes between active and idle only on a tick where the
\* current motion condition has lasted, since motionFrom, for its window
TransitionsDebounced ==
    (called /\ sig.face_present)
        => /\ (prev_state = "active" /\ status = "idle")
                => /\ sig.motion_value < sig.motion_threshold
                   /\ motionFrom # None
                   /\ now_ts - motionFrom >= cfg.idle_seconds
           /\ (prev_state = "idle" /\ status = "active")
                => /\ sig.motion_value >= sig.motion_threshold
                   /\ motionFrom # None
                   /\ now_ts - motionFrom >= cfg.active_confirm_seconds

Mapped(cam) == \E i \in DOMAIN PolicyZones : cam \in PolicyZones[i].camera_ids

\* C21: presence records whose source_id maps to no zone are ignored: an
\* evaluation gives every zone the counts, state, violations, since and
\* cache entry it gives for the same records without the unmapped ones.
C21_UnmappedIgnored ==
    [][EvaluateStep =>
        \E latest \in LatestChoices(RowsSince(events, WindowStart(clock))) :
            LET mapped == {sb \in DOMAIN latest : Mapped(latest[sb].source_id)}
                r == evaluate_zone_compliance(
                         SortedDesc({PresenceDict(sb, latest[sb]) : sb \in mapped}),
                         cache, clock)
            IN  /\ out' = [zones |-> r.zones, events |-> r.events]
                /\ cache' = r.cache
                /\ zone_counts' = r.counts
                /\ computed' = r.computed]_vars

C21_Witness ==
    /\ eval_now = clock
    /\ \E e \in events : /\ ~Mapped(e.source_id)
                          /\ e.ts < eval_now
                          /\ e.ts >= WindowStart(eval_now)
    /\ HasPresence("lobby")

\* ---------------------------------------------------- API process, claims
\* C22: evaluations of one zone by the broadcast loop and by requests are
\* serialized: when an evaluation writes the state of a zone, the cached
\* state it read for that zone is still the one in the cache, so read,
\* computation and write back are one atomic step per zone.
C22_EvaluationsSerialized ==
    \A c \in Coroutines :
        co[c].pc = "write" => co[c].prev = cache[PolicyZones[co[c].zi].zone_id]

C22_Witness ==
    /\ result["loop"] = "ok"
    /\ co["http"].pc = "write"
    /\ PolicyZones[co["http"].zi].zone_id = "lobby"
    /\ co["http"].prev # NoZoneState
    /\ co["http"].last_seen["lobby"] # None

\* C23: the policy model is loaded once at startup: every evaluation uses
\* the model of the document as it was at startup, whatever happens to the
\* document later.
C23_LoadedOnceAtStartup ==
    (boot_document \in {"v1", "v2"} /\ model # "none") => model = boot_document

\* C24: a missing or invalid policy document is fatal at load time: the
\* process does not get to serve with it, and no evaluation is attempted
\* and dropped for want of a policy.
C24_FatalAtLoad ==
    /\ serving => boot_document # "missing"
    /\ \A c \in Coroutines : result[c] # "raised"

\* ----------------------------------------------------- ingest loop, claims
\* C27: the tracking state of a subject is removed from the subject map once
\* the subject has not been seen for the retention period: the map holds no
\* subject last seen longer ago than that.
C27_SubjectsCollected ==
    \A k \in DOMAIN _subjects : wall - _subjects[k].last_seen_ts <= RetentionSeconds

\* a step that processes a sampled frame with a face
FaceFrameStep == wall' = wall /\ last_frame'.kind = "face"

\* what the frame finds stored for the subject k
Found(k) == IF k \in DOMAIN _subjects THEN _subjects[k] ELSE NewSubjectState

\* C30: heartbeat throttling: a frame with a face pushes a presence event
\* for its subject exactly when the computed status differs from the last
\* emitted status or at least presence_heartbeat_seconds have passed since
\* the last push; so a push that repeats the status of the subject's last
\* push comes at least presence_heartbeat_seconds after it.
C30_HeartbeatThrottle ==
    [][/\ FaceFrameStep =>
            LET k == last_frame'.subject
                pushed == \E p \in sent' : p.subject = k
            IN  /\ pushed <=>
                      \/ last_frame'.status # Found(k).last_status
                      \/ wall - Found(k).last_sent_ts >= settings.presence_heartbeat_seconds
                /\ \A p \in sent' : p.subject = k /\ p.event = last_frame'.status
       /\ wall' = wall =>
            \A p \in sent' :
                (p.subject \in DOMAIN _subjects
                   /\ p.event = _subjects[p.subject].last_status)
                  => p.ts - _subjects[p.subject].last_sent_ts
                       >= settings.presence_heartbeat_seconds]_vars

C30_Witness ==
    /\ last_frame.kind = "face"
    /\ sent = {}
    /\ last_frame.subject \in DOMAIN _subjects
    /\ _subjects[last_frame.subject].last_status = last_frame.status
    /\ _subjects[last_frame.subject].last_sent_ts < wall
    /\ settings.presence_heartbeat_seconds > 0

\* a step that processes a sampled frame without a face
NoFaceFrameStep == wall' = wall /\ last_frame'.kind = "noface"

\* C31: for a subject whose last emitted status is away, set by the sweep,
\* the first frame on which its face is detected again emits active if the
\* motion average is at or above the threshold and idle otherwise.
C31_ReturnFromSweptAway ==
    [][(FaceFrameStep /\ last_frame'.subject \in swept) =>
          LET k == last_frame'.subject
          IN  \E p \in sent' :
                 /\ p.subject = k
                 /\ p.event = IF _subjects'[k].motion_ema >= settings.motion_active_threshold
                              THEN "active" ELSE "idle"]_vars

\* the subject has been tracked and not seen for at least away_seconds
LongUnseen(k) ==
    /\ k \in DOMAIN _subjects
    /\ wall - _subjects[k].last_seen_ts >= settings.away_seconds

\* C32: every tracked subject that is not seen for at least away_seconds
\* eventually gets an away event pushed (or is seen again), whatever else
\* the camera sees in the meantime.
C32_AwayEventuallyPushed ==
    \A e \in Employees :
        LongUnseen(SubjectKey(e)) ~>
            (SubjectKey(e) \in swept \/ ~LongUnseen(SubjectKey(e)))

\* C33: the sweep pushes at most one away event per absence: a frame without
\* a face pushes no away event for a subject it has pushed one for already
\* and whose face has not been detected since.
C33_OneAwayPerAbsence ==
    [][NoFaceFrameStep => \A p \in sent' : p.subject \notin swept]_vars

C33_Witness ==
    /\ last_frame.kind = "noface"
    /\ sent = {}
    /\ swept # {}
    /\ \E k \in swept : wall - _subjects[k].last_sent_ts >= SweepMinGap

\* C34: for an identified subject, the away event of the sweep carries the
\* same employee_id as the active and idle events of that subject, an id the
\* API accepts.
C34_AwayCarriesEmployeeId ==
    \A p \in sent : \A e \in Employees \ {""} :
        p.subject = SubjectKey(e) => (p.employee_id = e /\ IsUuid(p.employee_id))

\* -------------------------------------------------- worker threads, claims
\* C28: under any interleaving of concurrent start() and stop() calls, at
\* most one worker thread executes _run at any time.
C28_OneWorker == Cardinality({t \in Threads : InRun(t)}) <= 1

\* C29: after stop() is called, the worker thread eventually leaves its
\* loops and terminates; it processes no frame after it has found the stop
\* signal set; and it ends with the running and connected flags cleared.
C29_StopTerminates ==
    /\ \A t \in Threads : (_stop /\ Alive(t)) ~> ~Alive(t)
    /\ [][\A t \in Threads :
            /\ (tpc[t] = "frame" /\ tpc'[t] = "inner") => ~saw_stop[t]
            /\ (Alive(t) /\ tpc'[t] = "dead") => (~_running' /\ ~_connected')]_vars

\* C38: if start() is called after stop() has returned, the ingestor ends up
\* with a live worker that keeps processing frames until the next stop():
\* whenever a start() was the last call to return and no call is under way,
\* there is a worker thread, the stop flag is clear, and the worker has not
\* been told to stop.
C38_RestartAfterStop ==
    (last_call = "start" /\ \A c \in Callers : cpc[c] = "idle") =>
        /\ _thread # 0
        /\ ~_stop
        /\ ~saw_stop[_thread]

\* ------------------------------------------------------ websockets, claims
\* C39: a websocket whose send fails during a broadcast is removed from the
\* connection set; disconnect of a websocket that is not in the set is a
\* no-op without error; and a connection added or removed while a broadcast
\* is in progress never makes the broadcast fail.
C39_BroadcastTolerant ==
    /\ [](~ws_error)
    /\ [][/\ \A tk \in tasks \ tasks' : tk.ws \in closed => tk.ws \notin _connections'
          /\ \A w \in missed' \ missed : _connections' = _connections]_vars

\* a failed send has removed a websocket, its handler has then called
\* disconnect for it, and a broadcast is under way next to a connection
\* made after it began
C39_Witness ==
    /\ ~ws_error
    /\ dropped \cap missed # {}
    /\ \E w \in _connections : tasks # {} /\ \A tk \in tasks : tk.ws # w

====
